---------------------------- MODULE Spec2Model ----------------------------
(***************************************************************************)
(* Model of the two suspend/resume bridges of the application:             *)
(*   - Connection (src/src/connection.rs): request/response multiplexing   *)
(*     over a websocket that reconnects with backoff;                      *)
(*   - Measurer (src/src/measurer.rs): futures completed by a render pass, *)
(*     with the Wake message of src/src/lib.rs.                            *)
(* Strings are sequences of one-character strings, Option<T> is a sequence *)
(* of length 0 (None) or 1 (Some).                                         *)
(***************************************************************************)
EXTENDS Integers, Sequences, FiniteSets, Bags, TLC

\* ------------------------------------------------------------------ bounds
\* Number of Connection::request calls explored.  next_free_id is a u64 that
\* wraps at 2^64; the bound keeps it far below the wrap.
MaxRequests == 2
\* Number of websockets created after the first one (Msg::Reconnect).
MaxSessions == 2
\* Number of Measurer::measure calls explored.
MaxMeasurements == 2
\* Largest id, and longest text, put through the wire format on its own.
MaxFrameId == 12
MaxTextLen == 2

\* ----------------------------------------------------------------- options
None == <<>>
Some(v) == <<v>>
IsSome(o) == o # None
Unwrap(o) == o[1]

\* ----------------------------------------------------------------- strings
Digits == <<"0", "1", "2", "3", "4", "5", "6", "7", "8", "9">>

IsDigit(c) == \E i \in 1..10 : Digits[i] = c

DigitValue(c) == (CHOOSE i \in 1..10 : Digits[i] = c) - 1

\* u64 Display: decimal, no sign, no leading zeros
RECURSIVE to_string(_)
to_string(n) ==
    IF n < 10 THEN <<Digits[n + 1]>>
    ELSE to_string(n \div 10) \o <<Digits[(n % 10) + 1]>>

\* format!("{id}|{message}")
format_request(id, message) == to_string(id) \o <<"|">> \o message

split_at_last(s, delim) ==
    IF \E i \in 1..Len(s) : s[i] = delim
    THEN LET i == CHOOSE j \in 1..Len(s) :
                     s[j] = delim /\ \A h \in (j + 1)..Len(s) : s[h] # delim
         IN  Some(<<SubSeq(s, 1, i - 1), SubSeq(s, i + 1, Len(s))>>)
    ELSE None

\* str::split_once(delim): split at the first occurrence of delim
split_once(s, delim) ==
    IF \E i \in 1..Len(s) : s[i] = delim
    THEN LET i == CHOOSE j \in 1..Len(s) :
                     s[j] = delim /\ \A h \in 1..(j - 1) : s[h] # delim
         IN  Some(<<SubSeq(s, 1, i - 1), SubSeq(s, i + 1, Len(s))>>)
    ELSE None

RECURSIVE digits_value(_)
digits_value(s) ==
    IF Len(s) = 0 THEN 0
    ELSE 10 * digits_value(SubSeq(s, 1, Len(s) - 1)) + DigitValue(s[Len(s)])

\* str::parse::<u64>(): an optional leading '+', then one or more decimal
\* digits.  (Strings of the model are too short to overflow a u64.)
parse_u64(s) ==
    LET body == IF Len(s) > 0 /\ s[1] = "+" THEN Tail(s) ELSE s
    IN  IF Len(body) > 0 /\ \A i \in 1..Len(body) : IsDigit(body[i])
        THEN Some(digits_value(body))
        ELSE None

\* ------------------------------------------------------------------ inputs
\* payloads given to Connection::request
Messages == {<<"A">>, <<"B", "|">>}
\* contents of replies
Contents == {<<"x">>, <<"|", "y">>}
\* texts without a separator, or whose id part is no unsigned integer (a
\* letter, nothing at all)
Malformed == {<<"1">>, <<"a", "|", "x">>, <<"|", "x">>}
\* wakers of the contexts a ResponseFuture is polled with
Wakers == {"w1", "w2"}
\* ids and texts put through the wire format on its own: ids of one and of
\* two digits, texts in which the separator and a digit occur anywhere
FrameIds == 0..MaxFrameId
Texts == UNION {[1..n -> {"a", "|", "7"}] : n \in 0..MaxTextLen}

VARIABLES
    \* ConnectionData
    next_free_id,    \* u64
    requests,        \* HashMap<u64, RequestEntry>: id -> [request, future_state]
    reconnector,     \* Option<StreamHandle>
    websocket,       \* the current WebSocket: [id, state]
    \* what the last handler did to its environment
    sent,            \* bag of the frames it put on the wire
    woken,           \* the Waker::wake calls it made, each with the response
                     \* the woken task would find
    \* backoff streams
    streams,         \* number of backoff streams that are alive
    scheduled,       \* number of backoff streams started since the last Opened
    faults,          \* number of Closed and Failed handled since the last
                     \* Opened, counted up to 2
    \* per request, in order of creation
    future_states,   \* ResponseFutureState: [response_message, waker]
    poll_result,     \* what the last ResponseFuture::poll returned
    delivered,       \* the value of the first Ready it returned
    issued,          \* the id request gave it
    first_reply,     \* content of the first reply carrying its id
    original,        \* per id not answered yet: the message given to request,
                     \* and whether request's own send succeeded
    panicked,        \* an unwrap() of Connection::update panicked
    stray,           \* whether the last handler was given a reply to an id
                     \* no request was waiting under: "no", "duplicate" (the
                     \* id was answered before) or "unknown" (never issued)
    \* MeasurerData
    measurements,    \* Vec<WeakMeasurement>
    futures,         \* Vec<Weak<RefCell<FutureState>>>
    \* per measurement, in order of creation
    m_div,           \* MeasurementData.div is attached to an element
    m_rendered,      \* MeasurementData.rendered
    f_waker,         \* FutureState.waker
    stage,           \* where the caller of measure is
    wake_count,      \* number of Waker::wake calls on the waker it registered
    \* seed application
    mq,              \* messages waiting for update
    after_render,    \* number of after_next_render callbacks registered
    should_render,   \* a render pass is scheduled
    viewed,          \* the measurements the last Measurer::view returned
    assert_failed,   \* the assert_eq! of the Measured sweep failed
    \* one frame on its way through the wire format
    framed,          \* the id and the text a frame was built from
    wire_text,       \* the frame, as WebSocketMessage::text gives it
    parsed           \* what the Received path made of it

cvars == <<next_free_id, requests, reconnector, websocket, sent, woken, streams,
           scheduled, faults, future_states, poll_result, delivered, issued,
           first_reply, original, panicked, stray>>

mvars == <<measurements, futures, m_div, m_rendered, f_waker, stage,
           wake_count, mq, after_render, should_render, viewed, assert_failed>>

fvars == <<framed, wire_text, parsed>>

vars == <<cvars, mvars, fvars>>

\* ============================================================== Connection

wrapping_add_stuck(x) == x

\* u64::wrapping_add(1); MaxRequests keeps the counter below the wrap
wrapping_add(x) == x + 1

\* WebSocket::send_text: the frame goes out only on an open socket, and the
\* callers ignore the error
send_text(ws, wire, frame) ==
    IF ws.state = "open" THEN wire (+) SetToBag({frame}) ELSE wire

create_websocket_reuse == websocket

\* create_websocket: a fresh socket that is connecting
create_websocket == [id |-> websocket.id + 1, state |-> "connecting"]

remove_nothing(table, key) == table

\* HashMap::remove
remove(table, key) == [k \in DOMAIN table \ {key} |-> table[k]]

\* HashMap::insert
insert(table, key, value) ==
    [k \in DOMAIN table \cup {key} |-> IF k = key THEN value ELSE table[k]]

\* Connection::request
Request(message) ==
    /\ ~panicked
    /\ next_free_id < MaxRequests
    /\ LET state == Len(future_states) + 1
           id == next_free_id
           request == format_request(id, message)
       IN  /\ future_states' =
                 Append(future_states, [response_message |-> None, waker |-> None])
           /\ next_free_id' = wrapping_add(next_free_id)
           /\ sent' = send_text(websocket, EmptyBag, request)
           /\ requests' =
                 insert(requests, id, [request |-> request, future_state |-> state])
           /\ poll_result' = Append(poll_result, None)
           /\ delivered' = Append(delivered, None)
           /\ first_reply' = Append(first_reply, None)
           /\ issued' = Append(issued, id)
           /\ original' = insert(original, id,
                                 [message |-> message,
                                  accepted |-> websocket.state = "open"])
    /\ woken' = <<>>
    /\ stray' = "no"
    /\ UNCHANGED <<reconnector, websocket, streams, scheduled, faults, panicked>>
    /\ UNCHANGED <<mvars, fvars>>

update_failed_or_closed_always ==
    /\ scheduled' = scheduled + 1
    /\ streams' = IF IsSome(reconnector) THEN streams ELSE streams + 1
    /\ reconnector' = Some("StreamHandle")

\* Connection::update, Msg::Failed | Msg::Closed: start a backoff stream unless
\* one is scheduled
update_failed_or_closed ==
    IF reconnector = None
    THEN /\ scheduled' = scheduled + 1
         /\ streams' = streams + 1
         /\ reconnector' = Some("StreamHandle")
    ELSE UNCHANGED <<reconnector, streams, scheduled>>

\* the websocket reports an error (on_error), handled as Msg::Failed
Failed ==
    /\ ~panicked
    /\ websocket.state \in {"connecting", "open"}
    /\ websocket' = [websocket EXCEPT !.state = "failed"]
    /\ update_failed_or_closed
    /\ faults' = IF faults < 2 THEN faults + 1 ELSE faults
    /\ sent' = EmptyBag
    /\ woken' = <<>>
    /\ stray' = "no"
    /\ UNCHANGED <<next_free_id, requests, future_states, poll_result, delivered,
                   issued, first_reply, original, panicked>>
    /\ UNCHANGED <<mvars, fvars>>

ClosedDropsRequests ==
    /\ ~panicked
    /\ websocket.state \in {"connecting", "open", "failed"}
    /\ websocket' = [websocket EXCEPT !.state = "closed"]
    /\ update_failed_or_closed
    /\ faults' = IF faults < 2 THEN faults + 1 ELSE faults
    /\ requests' = <<>>
    /\ sent' = EmptyBag
    /\ woken' = <<>>
    /\ stray' = "no"
    /\ UNCHANGED <<next_free_id, future_states, poll_result, delivered,
                   issued, first_reply, original, panicked>>
    /\ UNCHANGED <<mvars, fvars>>

\* the websocket closes (on_close), handled as Msg::Closed
Closed ==
    /\ ~panicked
    /\ websocket.state \in {"connecting", "open", "failed"}
    /\ websocket' = [websocket EXCEPT !.state = "closed"]
    /\ update_failed_or_closed
    /\ faults' = IF faults < 2 THEN faults + 1 ELSE faults
    /\ sent' = EmptyBag
    /\ woken' = <<>>
    /\ stray' = "no"
    /\ UNCHANGED <<next_free_id, requests, future_states, poll_result, delivered,
                   issued, first_reply, original, panicked>>
    /\ UNCHANGED <<mvars, fvars>>

\* Connection::update, Msg::Reconnect: a tick of the live backoff stream; the
\* previous WebSocket is dropped and a fresh one becomes current
Reconnect ==
    /\ ~panicked
    /\ streams > 0
    /\ websocket.id < MaxSessions
    /\ websocket' = create_websocket
    /\ sent' = EmptyBag
    /\ woken' = <<>>
    /\ stray' = "no"
    /\ UNCHANGED <<next_free_id, requests, reconnector, streams, scheduled,
                   faults, future_states, poll_result, delivered, issued,
                   first_reply, original, panicked>>
    /\ UNCHANGED <<mvars, fvars>>

send_all_twice(ws, table, ids, wire) ==
    LET once == [f \in {table[i].request : i \in ids} |-> 1]
    IN  IF ws.state = "open" THEN wire (+) once (+) once ELSE wire

\* for entry in data.requests.values() { send_message(&entry.request, ws) }
RECURSIVE send_all(_, _, _, _)
send_all(ws, table, ids, wire) ==
    IF ids = {} THEN wire
    ELSE LET id == CHOOSE i \in ids : TRUE
         IN  send_all(ws, table, ids \ {id}, send_text(ws, wire, table[id].request))

OpenedWithoutReplay ==
    /\ ~panicked
    /\ websocket.state = "connecting"
    /\ websocket' = [websocket EXCEPT !.state = "open"]
    /\ reconnector' = None
    /\ streams' = IF IsSome(reconnector) THEN streams - 1 ELSE streams
    /\ scheduled' = 0
    /\ faults' = 0
    /\ sent' = EmptyBag
    /\ woken' = <<>>
    /\ stray' = "no"
    /\ UNCHANGED <<next_free_id, requests, future_states, poll_result, delivered,
                   issued, first_reply, original, panicked>>
    /\ UNCHANGED <<mvars, fvars>>

\* Connection::update, Msg::Opened: the current websocket opened (on_open);
\* the backoff handle is dropped, which cancels its stream, and every
\* outstanding request is sent again
Opened ==
    /\ ~panicked
    /\ websocket.state = "connecting"
    /\ websocket' = [websocket EXCEPT !.state = "open"]
    /\ reconnector' = None
    /\ streams' = IF IsSome(reconnector) THEN streams - 1 ELSE streams
    /\ scheduled' = 0
    /\ faults' = 0
    /\ sent' = send_all(websocket', requests, DOMAIN requests, EmptyBag)
    /\ woken' = <<>>
    /\ stray' = "no"
    /\ UNCHANGED <<next_free_id, requests, future_states, poll_result, delivered,
                   issued, first_reply, original, panicked>>
    /\ UNCHANGED <<mvars, fvars>>

set_response_wake_first(entry, message) ==
    LET s == entry.future_state
        waker == future_states[s].waker
    IN  /\ woken' = IF IsSome(waker)
                    THEN <<[state |-> s, waker |-> Unwrap(waker),
                            seen |-> future_states[s].response_message]>>
                    ELSE <<>>
        /\ future_states' = [future_states EXCEPT
                                ![s] = [response_message |-> Some(message),
                                        waker |-> None]]

\* RequestEntry::set_response: store the response, then wake the waiter
set_response(entry, message) ==
    LET s == entry.future_state
        waker == future_states[s].waker
        stored == [future_states EXCEPT ![s].response_message = Some(message)]
    IN  /\ future_states' = [stored EXCEPT ![s].waker = None]
        /\ woken' = IF IsSome(waker)
                    THEN <<[state |-> s, waker |-> Unwrap(waker),
                            seen |-> stored[s].response_message]>>
                    ELSE <<>>

update_received_skips_malformed(packet) ==
    LET parts == split_once(packet, "|")
        rid == IF IsSome(parts) THEN parse_u64(Unwrap(parts)[1]) ELSE None
    IN  IF ~IsSome(parts) \/ ~IsSome(rid)
        THEN /\ woken' = <<>>
             /\ UNCHANGED <<requests, future_states, panicked>>
        ELSE /\ requests' = remove(requests, Unwrap(rid))
             /\ IF Unwrap(rid) \in DOMAIN requests
                THEN set_response(requests[Unwrap(rid)], Unwrap(parts)[2])
                ELSE woken' = <<>> /\ UNCHANGED future_states
             /\ UNCHANGED panicked

update_received_requires_entry(packet) ==
    LET parts == split_once(packet, "|")
        rid == IF IsSome(parts) THEN parse_u64(Unwrap(parts)[1]) ELSE None
    IN  IF ~IsSome(parts) \/ ~IsSome(rid) \/ Unwrap(rid) \notin DOMAIN requests
        THEN /\ panicked' = TRUE
             /\ woken' = <<>>
             /\ UNCHANGED <<requests, future_states>>
        ELSE /\ requests' = remove(requests, Unwrap(rid))
             /\ set_response(requests[Unwrap(rid)], Unwrap(parts)[2])
             /\ UNCHANGED panicked

update_received_keeps_entry(packet) ==
    LET parts == split_once(packet, "|")
        rid == IF IsSome(parts) THEN parse_u64(Unwrap(parts)[1]) ELSE None
    IN  IF ~IsSome(parts) \/ ~IsSome(rid)
        THEN /\ panicked' = TRUE
             /\ woken' = <<>>
             /\ UNCHANGED <<requests, future_states>>
        ELSE /\ requests' = requests
             /\ IF Unwrap(rid) \in DOMAIN requests
                THEN set_response(requests[Unwrap(rid)], Unwrap(parts)[2])
                ELSE woken' = <<>> /\ UNCHANGED future_states
             /\ UNCHANGED panicked

\* Connection::update, Msg::Received(packet)
update_received(packet) ==
    LET parts == split_once(packet, "|")
        rid == IF IsSome(parts) THEN parse_u64(Unwrap(parts)[1]) ELSE None
    IN  IF ~IsSome(parts) \/ ~IsSome(rid)
        THEN \* Option::unwrap / Result::unwrap panics
             /\ panicked' = TRUE
             /\ woken' = <<>>
             /\ UNCHANGED <<requests, future_states>>
        ELSE /\ requests' = remove(requests, Unwrap(rid))
             /\ IF Unwrap(rid) \in DOMAIN requests
                THEN set_response(requests[Unwrap(rid)], Unwrap(parts)[2])
                ELSE woken' = <<>> /\ UNCHANGED future_states
             /\ UNCHANGED panicked

\* the open websocket delivers a reply that the server built for id with
\* content (decode_message, then Msg::Received)
Reply(id, content) ==
    /\ ~panicked
    /\ websocket.state = "open"
    /\ update_received(format_request(id, content))
    /\ first_reply' =
          [s \in DOMAIN first_reply |->
              IF issued[s] = id /\ first_reply[s] = None
              THEN Some(content) ELSE first_reply[s]]
    /\ original' = remove(original, id)
    /\ stray' = IF id \in DOMAIN original THEN "no"
                ELSE IF \E s \in DOMAIN issued : issued[s] = id THEN "duplicate"
                ELSE "unknown"
    /\ sent' = EmptyBag
    /\ UNCHANGED <<next_free_id, reconnector, websocket, streams, scheduled,
                   faults, poll_result, delivered, issued>>
    /\ UNCHANGED <<mvars, fvars>>

\* the open websocket delivers a text that is no reply frame
Garbage(packet) ==
    /\ ~panicked
    /\ websocket.state = "open"
    /\ update_received(packet)
    /\ stray' = "no"
    /\ sent' = EmptyBag
    /\ UNCHANGED <<next_free_id, reconnector, websocket, streams, scheduled,
                   faults, poll_result, delivered, issued, first_reply, original>>
    /\ UNCHANGED <<mvars, fvars>>

poll_keeps_response(state, w) ==
    IF IsSome(state.response_message)
    THEN [result |-> <<"Ready", Unwrap(state.response_message)>>, state |-> state]
    ELSE [result |-> <<"Pending">>,
          state |-> [state EXCEPT !.waker = Some(w)]]

poll_eager(state, w) ==
    [result |-> <<"Ready", IF IsSome(state.response_message)
                           THEN Unwrap(state.response_message) ELSE <<>> >>,
     state |-> [state EXCEPT !.response_message = None]]

\* ResponseFuture::poll on a context whose waker is w: the result and the
\* state it leaves
poll(state, w) ==
    IF IsSome(state.response_message)
    THEN [result |-> <<"Ready", Unwrap(state.response_message)>>,
          state |-> [state EXCEPT !.response_message = None]]
    ELSE [result |-> <<"Pending">>,
          state |-> [state EXCEPT !.waker = Some(w)]]

\* the caller of request polls the future it got
Poll(s, w) ==
    /\ ~panicked
    /\ s \in DOMAIN future_states
    /\ LET p == poll(future_states[s], w)
       IN  /\ future_states' = [future_states EXCEPT ![s] = p.state]
           /\ poll_result' = [poll_result EXCEPT ![s] = Some(p.result)]
           /\ delivered' = IF p.result[1] = "Ready" /\ delivered[s] = None
                           THEN [delivered EXCEPT ![s] = Some(p.result[2])]
                           ELSE delivered
    /\ sent' = EmptyBag
    /\ woken' = <<>>
    /\ stray' = "no"
    /\ UNCHANGED <<next_free_id, requests, reconnector, websocket, streams,
                   scheduled, faults, issued, first_reply, original, panicked>>
    /\ UNCHANGED <<mvars, fvars>>

\* ------------------------------------------------------------ wire format

\* Connection::update, Msg::Received, up to the table lookup: the id and the
\* content of the packet, or None where one of the two unwrap() panics
parse_packet(text) ==
    LET parts == split_once(text, "|")
        rid == IF IsSome(parts) THEN parse_u64(Unwrap(parts)[1]) ELSE None
    IN  IF ~IsSome(parts) \/ ~IsSome(rid)
        THEN None
        ELSE Some(<<Unwrap(rid), Unwrap(parts)[2]>>)

\* a frame is built for an id and a text, as Connection::request builds it
Frame(id, text) ==
    /\ framed' = Some(<<id, text>>)
    /\ wire_text' = format_request(id, text)
    /\ parsed' = None
    /\ UNCHANGED <<cvars, mvars>>

\* the frame comes back as the packet of a Msg::Received
Parse ==
    /\ IsSome(framed)
    /\ parsed = None
    /\ parsed' = Some(parse_packet(wire_text))
    /\ UNCHANGED <<framed, wire_text>>
    /\ UNCHANGED <<cvars, mvars>>

\* ================================================================ Measurer

\* Rc strong counts, by where the caller of measure is:
\*   "created"   the future of measure exists and was not polled yet
\*   "awaiting"  it was polled and MeasureFuture returned Pending
\*   "dropped"   the caller dropped it before it completed
\*   "done"      it returned Ready(measurement) and the caller holds that
\*   "released"  the caller dropped the measurement it got
\* The FutureState lives as long as the future that owns it; the
\* MeasurementData as long as the FutureState or the caller's copy.

\* Weak<RefCell<FutureState>>::upgrade
upgrade_future(k) == stage[k] \in {"created", "awaiting"}

upgrade_caller_only(k) == stage[k] = "done"

upgrade_always(k) == TRUE

\* WeakMeasurement::upgrade
upgrade(k) == stage[k] \in {"created", "awaiting", "done"}

\* MeasureFuture::poll, by the task whose waker is k's
poll_measure(k) ==
    IF m_div[k]
    THEN /\ stage' = [stage EXCEPT ![k] = "done"]
         /\ f_waker' = [f_waker EXCEPT ![k] = None]
    ELSE /\ stage' = [stage EXCEPT ![k] = "awaiting"]
         /\ f_waker' = [f_waker EXCEPT ![k] = Some(k)]

\* Measurer::measure: the measurement and its future state are registered;
\* the async block it returns has not run yet
Measure ==
    /\ ~assert_failed
    /\ Len(stage) < MaxMeasurements
    /\ LET k == Len(stage) + 1
       IN  /\ measurements' = Append(measurements, k)
           /\ futures' = Append(futures, k)
    /\ m_div' = Append(m_div, FALSE)
    /\ m_rendered' = Append(m_rendered, FALSE)
    /\ f_waker' = Append(f_waker, None)
    /\ stage' = Append(stage, "created")
    /\ wake_count' = Append(wake_count, 0)
    /\ UNCHANGED <<mq, after_render, should_render, viewed, assert_failed>>
    /\ UNCHANGED <<cvars, fvars>>

\* first poll of the async block of measure: msg_sender(Msg::WaitForRender),
\* then MeasureFuture is polled
FirstPoll(k) ==
    /\ ~assert_failed
    /\ k \in DOMAIN stage
    /\ stage[k] = "created"
    /\ mq' = Append(mq, [type |-> "WaitForRender"])
    /\ poll_measure(k)
    /\ UNCHANGED <<measurements, futures, m_div, m_rendered, wake_count,
                   after_render, should_render, viewed, assert_failed>>
    /\ UNCHANGED <<cvars, fvars>>

\* a later poll of the async block: MeasureFuture is polled again
PollAgain(k) ==
    /\ ~assert_failed
    /\ k \in DOMAIN stage
    /\ stage[k] = "awaiting"
    /\ poll_measure(k)
    /\ UNCHANGED <<measurements, futures, m_div, m_rendered, wake_count, mq,
                   after_render, should_render, viewed, assert_failed>>
    /\ UNCHANGED <<cvars, fvars>>

\* the caller drops the future of measure before it completed: the
\* FutureState, its waker and its Measurement go with it
DropFuture(k) ==
    /\ ~assert_failed
    /\ k \in DOMAIN stage
    /\ stage[k] \in {"created", "awaiting"}
    /\ stage' = [stage EXCEPT ![k] = "dropped"]
    /\ f_waker' = [f_waker EXCEPT ![k] = None]
    /\ UNCHANGED <<measurements, futures, m_div, m_rendered, wake_count, mq,
                   after_render, should_render, viewed, assert_failed>>
    /\ UNCHANGED <<cvars, fvars>>

\* the caller drops the Measurement the future gave it (end of the task of
\* update, Msg::AddRenderable)
DropMeasurement(k) ==
    /\ ~assert_failed
    /\ k \in DOMAIN stage
    /\ stage[k] = "done"
    /\ stage' = [stage EXCEPT ![k] = "released"]
    /\ UNCHANGED <<measurements, futures, m_div, m_rendered, f_waker,
                   wake_count, mq, after_render, should_render, viewed,
                   assert_failed>>
    /\ UNCHANGED <<cvars, fvars>>

\* update of a message that is not the Measurer's (Msg::AddRenderable,
\* Msg::Connection): seed schedules a render pass after it
OtherMsg ==
    /\ ~assert_failed
    /\ ~should_render
    /\ should_render' = TRUE
    /\ UNCHANGED <<measurements, futures, m_div, m_rendered, f_waker, stage,
                   wake_count, mq, after_render, viewed, assert_failed>>
    /\ UNCHANGED <<cvars, fvars>>

\* Measurer::update, Msg::WaitForRender
WaitForRender ==
    /\ ~assert_failed
    /\ mq # <<>>
    /\ Head(mq).type = "WaitForRender"
    /\ mq' = Tail(mq)
    /\ after_render' = after_render + 1
    /\ should_render' = TRUE
    /\ UNCHANGED <<measurements, futures, m_div, m_rendered, f_waker, stage,
                   wake_count, viewed, assert_failed>>
    /\ UNCHANGED <<cvars, fvars>>

view_keeps_all == measurements

\* Measurer::view, the filter: the measurements that still upgrade, which
\* are both the ones kept and the ones rendered
view == SelectSeq(measurements, upgrade)

Range(seq) == {seq[i] : i \in DOMAIN seq}

render_without_mark(shown) == m_rendered

\* Measurer::view, "Mark that specific measurement is rendered"
mark_rendered(shown) ==
    [k \in DOMAIN m_rendered |-> IF k \in Range(shown) THEN TRUE ELSE m_rendered[k]]

\* a render pass of seed: view (lib.rs) calls Measurer::view, the nodes it
\* returns are put in the DOM, which attaches the el_ref of each, and the
\* after_next_render callbacks send Msg::Measured
Render ==
    /\ ~assert_failed
    /\ should_render
    /\ LET shown == view
       IN  /\ measurements' = shown
           /\ viewed' = shown
           /\ m_rendered' = mark_rendered(shown)
           /\ m_div' = [k \in DOMAIN m_div |->
                           IF k \in Range(shown) THEN TRUE ELSE m_div[k]]
    /\ mq' = mq \o [i \in 1..after_render |-> [type |-> "Measured"]]
    /\ after_render' = 0
    /\ should_render' = FALSE
    /\ UNCHANGED <<futures, f_waker, stage, wake_count, assert_failed>>
    /\ UNCHANGED <<cvars, fvars>>

\* the assert_eq! of the sweep, over the future states that still upgrade
sweep_consistent ==
    \A i \in DOMAIN futures :
        upgrade_future(futures[i]) => (m_div[futures[i]] = m_rendered[futures[i]])

sweep_wakers_none == <<>>

\* the wakers the sweep takes: those of the live, realized entries
sweep_wakers ==
    LET taken == SelectSeq(futures,
                    LAMBDA k : upgrade_future(k) /\ m_div[k] /\ IsSome(f_waker[k]))
    IN  [i \in DOMAIN taken |-> Unwrap(f_waker[taken[i]])]

filtered_futures_keeps_realized == SelectSeq(futures, upgrade_future)

\* filtered_futures: the live entries that are not realized yet
filtered_futures ==
    SelectSeq(futures, LAMBDA k : upgrade_future(k) /\ ~m_div[k])

MeasuredWakesInline ==
    /\ ~assert_failed
    /\ mq # <<>>
    /\ Head(mq).type = "Measured"
    /\ sweep_consistent
    /\ f_waker' = [k \in DOMAIN f_waker |->
                      IF upgrade_future(k) /\ m_div[k] /\ k \in Range(futures)
                      THEN None ELSE f_waker[k]]
    /\ futures' = filtered_futures
    /\ wake_count' = [k \in DOMAIN wake_count |->
                         IF k \in Range(sweep_wakers)
                         THEN wake_count[k] + 1 ELSE wake_count[k]]
    /\ mq' = Tail(mq)
    /\ should_render' = (should_render \/ filtered_futures # <<>>)
    /\ UNCHANGED <<measurements, m_div, m_rendered, stage, after_render, viewed,
                   assert_failed>>
    /\ UNCHANGED <<cvars, fvars>>

\* Measurer::update, Msg::Measured: the sweep of the future states
Measured ==
    /\ ~assert_failed
    /\ mq # <<>>
    /\ Head(mq).type = "Measured"
    /\ IF ~sweep_consistent
       THEN \* assert_eq! panics
            /\ assert_failed' = TRUE
            /\ UNCHANGED <<futures, f_waker, mq, should_render>>
       ELSE /\ f_waker' = [k \in DOMAIN f_waker |->
                              IF upgrade_future(k) /\ m_div[k] /\ k \in Range(futures)
                              THEN None ELSE f_waker[k]]
            /\ futures' = filtered_futures
            /\ mq' = Tail(mq) \o
                     (IF sweep_wakers # <<>>
                      THEN <<[type |-> "Wake", wakers |-> sweep_wakers]>>
                      ELSE <<>>)
            /\ should_render' = (should_render \/ filtered_futures # <<>>)
            /\ UNCHANGED assert_failed
    /\ UNCHANGED <<measurements, m_div, m_rendered, stage, wake_count,
                   after_render, viewed>>
    /\ UNCHANGED <<cvars, fvars>>

\* update (lib.rs), Msg::Wake(wakers): every waker is invoked; seed schedules
\* a render pass after it
Wake ==
    /\ ~assert_failed
    /\ mq # <<>>
    /\ Head(mq).type = "Wake"
    /\ wake_count' = [k \in DOMAIN wake_count |->
                         wake_count[k] +
                         Cardinality({i \in DOMAIN Head(mq).wakers :
                                         Head(mq).wakers[i] = k})]
    /\ mq' = Tail(mq)
    /\ should_render' = TRUE
    /\ UNCHANGED <<measurements, futures, m_div, m_rendered, f_waker, stage,
                   after_render, viewed, assert_failed>>
    /\ UNCHANGED <<cvars, fvars>>

\* ========================================================== specifications

\* init (lib.rs): both components as constructed
Init ==
    /\ next_free_id = 0
    /\ requests = <<>>
    /\ reconnector = None
    /\ websocket = [id |-> 0, state |-> "connecting"]
    /\ sent = EmptyBag
    /\ woken = <<>>
    /\ streams = 0
    /\ scheduled = 0
    /\ faults = 0
    /\ future_states = <<>>
    /\ poll_result = <<>>
    /\ delivered = <<>>
    /\ issued = <<>>
    /\ first_reply = <<>>
    /\ original = <<>>
    /\ panicked = FALSE
    /\ stray = "no"
    /\ measurements = <<>>
    /\ futures = <<>>
    /\ m_div = <<>>
    /\ m_rendered = <<>>
    /\ f_waker = <<>>
    /\ stage = <<>>
    /\ wake_count = <<>>
    /\ mq = <<>>
    /\ after_render = 0
    /\ should_render = FALSE
    /\ viewed = <<>>
    /\ assert_failed = FALSE
    /\ framed = None
    /\ wire_text = <<>>
    /\ parsed = None

ConnectionNext ==
    \/ \E message \in Messages : Request(message)
    \/ Failed
    \/ Closed
    \/ Reconnect
    \/ Opened
    \/ \E id \in 0..MaxRequests, content \in Contents : Reply(id, content)
    \/ \E packet \in Malformed : Garbage(packet)
    \/ \E s \in 1..MaxRequests, w \in Wakers : Poll(s, w)

\* the Connection and its callers; the Measurer stays as constructed
ConnectionSpec == Init /\ [][ConnectionNext]_vars

\* the same, where the live backoff stream keeps emitting: a Reconnect tick
\* that stays due is eventually handled
ConnectionFairSpec == ConnectionSpec /\ WF_vars(Reconnect)

MeasurerNext ==
    \/ Measure
    \/ \E k \in 1..MaxMeasurements : FirstPoll(k)
    \/ \E k \in 1..MaxMeasurements : PollAgain(k)
    \/ \E k \in 1..MaxMeasurements : DropFuture(k)
    \/ \E k \in 1..MaxMeasurements : DropMeasurement(k)
    \/ OtherMsg
    \/ WaitForRender
    \/ Render
    \/ Measured
    \/ Wake

\* the Measurer, its callers and the render passes; the Connection stays as
\* constructed
MeasurerSpec == Init /\ [][MeasurerNext]_vars

FramingNext ==
    \/ \E id \in FrameIds, text \in Texts : Frame(id, text)
    \/ Parse

\* the wire format on its own: frames built and parsed again
FramingSpec == Init /\ [][FramingNext]_vars

\* the task that awaits measurement k is polled after its waker was invoked
PollWoken(k) == PollAgain(k) /\ wake_count[k] > 0

\* the same, where seed handles every queued message and runs every render
\* pass it scheduled, and the executor polls every task that was woken
MeasurerFairSpec ==
    /\ MeasurerSpec
    /\ WF_vars(WaitForRender)
    /\ WF_vars(Render)
    /\ WF_vars(Measured)
    /\ WF_vars(Wake)
    /\ \A k \in 1..MaxMeasurements : WF_vars(PollWoken(k))

\* ================================================================== claims

\* the frame Connection::request built for an id that is not answered yet
OriginalFrame(id) == format_request(id, original[id].message)

\* a step in which the websocket opens and Msg::Opened is handled
OpenedStep == websocket.state = "connecting" /\ websocket'.state = "open"

\* a step in which update takes a message of this type from the queue
Handled(type) ==
    /\ mq # <<>>
    /\ Head(mq).type = type
    /\ mq' # mq
    /\ Len(mq') <= Len(mq)

Ready(v) == Some(<<"Ready", v>>)

\* a step in which the reply built for id with content is handled; the first
\* conjuncts follow from Reply and spare its evaluation on other steps
ReplyStep(id, content) ==
    /\ websocket.state = "open"
    /\ issued' = issued
    /\ faults' = faults
    /\ delivered' = delivered
    /\ DOMAIN original' = DOMAIN original \ {id}
    /\ id \notin DOMAIN original => stray' # "no"
    /\ Reply(id, content)

\* C1: as long as no reply to any of them has been handled, the N requests
\* issued so far got N distinct ids and the table holds N entries, one per
\* request, each bound to the future state of its own request.
CorrelationUniqueness ==
    (\A s \in DOMAIN first_reply : first_reply[s] = None) =>
        /\ \A s, t \in DOMAIN issued : s # t => issued[s] # issued[t]
        /\ Cardinality(DOMAIN requests) = Len(issued)
        /\ \A s \in DOMAIN issued :
              /\ issued[s] \in DOMAIN requests
              /\ requests[issued[s]].future_state = s

CorrelationUniquenessWitness ==
    /\ Len(issued) >= 2
    /\ \A s \in DOMAIN first_reply : first_reply[s] = None
    /\ Cardinality(DOMAIN requests) = Len(issued)

\* C2: when Opened is handled, every request whose frame an earlier socket
\* had accepted and that is not answered yet is sent again on the socket that
\* just opened, as the very frame request built (same id, same payload).
ReplayAfterReconnect ==
    [][OpenedStep =>
          \A id \in DOMAIN original :
              original[id].accepted => CopiesIn(OriginalFrame(id), sent') >= 1]_vars

ReplayAfterReconnectWitness ==
    /\ websocket.id >= 1
    /\ websocket.state = "open"
    /\ BagCardinality(sent) = 2
    /\ \A id \in DOMAIN original :
          original[id].accepted /\ CopiesIn(OriginalFrame(id), sent) = 1

\* C3: a future holds a response, or has returned Ready, only if a reply
\* carrying the id of its request has been handled since the request.
NoPrematureResolution ==
    \A s \in DOMAIN future_states :
        (\/ IsSome(future_states[s].response_message)
         \/ IsSome(delivered[s])
         \/ (IsSome(poll_result[s]) /\ Unwrap(poll_result[s])[1] = "Ready"))
        => IsSome(first_reply[s])

NoPrematureResolutionWitness ==
    \E s, t \in DOMAIN future_states :
        /\ IsSome(delivered[s])
        /\ first_reply[t] = None
        /\ poll_result[t] = Some(<<"Pending">>)
        /\ websocket.id >= 1

\* C4: at most one backoff stream is scheduled and alive at any time, it is
\* the one the reconnector holds, and however many Closed and Failed events
\* are handled during an outage exactly one was started.
IdempotentBackoff ==
    /\ scheduled <= 1
    /\ streams <= 1
    /\ (IsSome(reconnector) <=> streams = 1)
    /\ (faults >= 1 => scheduled = 1 /\ streams = 1)

IdempotentBackoffWitness == faults >= 2 /\ scheduled = 1 /\ IsSome(reconnector)

\* a measurement whose future was dropped before an element was attached
Abandoned(k) == stage[k] = "dropped" /\ ~m_div[k]

\* C5: a measurement abandoned before it was realized is not returned by the
\* next view, which also removes it from measurements; the next Measured
\* sweep removes it from futures; and its waker is never invoked nor queued.
Reclamation ==
    /\ [](\A k \in DOMAIN stage :
             Abandoned(k) =>
                 /\ wake_count[k] = 0
                 /\ f_waker[k] = None
                 /\ \A i \in DOMAIN mq :
                       mq[i].type = "Wake" => k \notin Range(mq[i].wakers))
    /\ [][(should_render /\ ~should_render') =>
             \A k \in DOMAIN stage :
                 Abandoned(k) =>
                     k \notin Range(viewed') /\ k \notin Range(measurements')]_vars
    /\ [][Handled("Measured") =>
             \A k \in DOMAIN stage : Abandoned(k) => k \notin Range(futures')]_vars

ReclamationWitness ==
    \E k \in DOMAIN stage :
        /\ Abandoned(k)
        /\ k \notin Range(measurements)
        /\ k \notin Range(futures)
        /\ viewed # <<>>

\* C6: when set_response invokes a waker the response is already stored, and
\* the first poll of a future after the reply to its request was handled
\* returns Ready with the content of that reply, never Pending.
WakeOrdering ==
    /\ [](\A i \in DOMAIN woken :
             /\ IsSome(woken[i].seen)
             /\ future_states[woken[i].state].response_message = woken[i].seen
             /\ first_reply[woken[i].state] = woken[i].seen)
    /\ [][\A s \in DOMAIN future_states, w \in Wakers :
             (Poll(s, w) /\ IsSome(first_reply[s]) /\ delivered[s] = None) =>
                 poll_result'[s] = Ready(Unwrap(first_reply[s]))]_vars

WakeOrderingWitness ==
    \E s \in DOMAIN future_states :
        /\ woken # <<>>
        /\ woken[1].state = s
        /\ poll_result[s] = Some(<<"Pending">>)
        /\ IsSome(future_states[s].response_message)

\* C7: handling the reply to an outstanding request removes exactly its entry
\* from the table and stores exactly the content in the future state of that
\* request, leaving every other entry and future state as it was; the stored
\* content is what the next poll of that future returns.
ReplyCorrelation ==
    /\ [][\A id \in 0..MaxRequests, c \in Contents :
             (id \in DOMAIN requests /\ ReplyStep(id, c)) =>
                 LET s == requests[id].future_state
                 IN  /\ DOMAIN requests' = DOMAIN requests \ {id}
                     /\ \A j \in DOMAIN requests' : requests'[j] = requests[j]
                     /\ future_states'[s].response_message = Some(c)
                     /\ \A t \in DOMAIN future_states :
                           t # s => future_states'[t] = future_states[t]
                     /\ poll_result' = poll_result]_vars
    /\ [][\A s \in DOMAIN future_states, w \in Wakers :
             (Poll(s, w) /\ IsSome(future_states[s].response_message)) =>
                 /\ poll_result'[s] = Ready(Unwrap(future_states[s].response_message))
                 /\ \A t \in DOMAIN future_states :
                       t # s => /\ future_states'[t] = future_states[t]
                                /\ poll_result'[t] = poll_result[t]]_vars

ReplyCorrelationWitness ==
    \E s \in DOMAIN future_states :
        /\ IsSome(delivered[s])
        /\ delivered[s] = first_reply[s]
        /\ issued[s] \notin DOMAIN requests
        /\ DOMAIN requests # {}

\* C8: a request issued while the websocket is not open puts nothing on the
\* wire, is recorded in the table under its id all the same and gives its
\* caller an ordinary pending future; when Opened is handled, the frame of
\* every such request not answered yet is sent exactly once.
DeferredSend ==
    /\ [][(Len(issued') = Len(issued) + 1 /\ websocket.state # "open") =>
             LET id == issued'[Len(issued')]
             IN  /\ sent' = EmptyBag
                 /\ id \in DOMAIN requests'
                 /\ requests'[id] = [request |-> format_request(id, original'[id].message),
                                     future_state |-> Len(issued')]
                 /\ future_states'[Len(issued')] =
                       [response_message |-> None, waker |-> None]
                 /\ ~panicked']_vars
    /\ [][OpenedStep =>
             \A id \in DOMAIN original :
                 ~original[id].accepted => CopiesIn(OriginalFrame(id), sent') = 1]_vars

DeferredSendWitness ==
    /\ websocket.state = "open"
    /\ \E id \in DOMAIN original :
          ~original[id].accepted /\ CopiesIn(OriginalFrame(id), sent) = 1

Occurrences(k, wakers) == Cardinality({i \in DOMAIN wakers : wakers[i] = k})

\* C10: handling Measured invokes no waker; the wakers of the live, realized
\* entries of that sweep leave together in one Wake message put at the end of
\* the queue (none if there is no such waker); and a waker is invoked only
\* when a Wake message is handled, which invokes exactly the wakers it holds.
BatchedWakes ==
    /\ [][Handled("Measured") =>
             LET realized == SelectSeq(futures,
                                LAMBDA k : /\ stage[k] \in {"created", "awaiting"}
                                           /\ m_div[k]
                                           /\ IsSome(f_waker[k]))
             IN  /\ \A k \in DOMAIN wake_count : wake_count'[k] = wake_count[k]
                 /\ mq' = Tail(mq) \o
                          (IF realized = <<>> THEN <<>>
                           ELSE <<[type |-> "Wake", wakers |-> realized]>>)]_vars
    /\ [][(\E k \in DOMAIN wake_count : wake_count'[k] # wake_count[k]) =>
             /\ Handled("Wake")
             /\ \A k \in DOMAIN wake_count :
                   wake_count'[k] = wake_count[k] + Occurrences(k, Head(mq).wakers)]_vars

BatchedWakesWitness ==
    \E i \in DOMAIN mq : mq[i].type = "Wake" /\ Len(mq[i].wakers) = 2

\* C11: a frame built from an id and a text, whatever the text holds, is
\* parsed on the Received path without a panic into that very id and the
\* whole text: the split is at the first separator, the one after the id.
FramingRoundTrip ==
    IsSome(parsed) =>
        /\ Unwrap(parsed) = Some(Unwrap(framed))
        /\ Unwrap(split_once(wire_text, "|"))[1] = to_string(Unwrap(framed)[1])

FramingRoundTripWitness ==
    /\ IsSome(parsed)
    /\ Unwrap(framed)[1] >= 10
    /\ Unwrap(framed)[2] = <<"|", "7">>
    /\ Unwrap(parsed) = Some(<<Unwrap(framed)[1], <<"|", "7">> >>)

\* a text with no separator, or whose part before the first separator is not
\* an unsigned integer: one or more decimal digits after an optional '+'
FramingFault(text) ==
    LET bars == {i \in 1..Len(text) : text[i] = "|"}
    IN  \/ bars = {}
        \/ LET first == CHOOSE i \in bars : \A j \in bars : i <= j
               id == SubSeq(text, 1, first - 1)
               number == IF id # <<>> /\ id[1] = "+" THEN Tail(id) ELSE id
           IN  \/ number = <<>>
               \/ \E j \in 1..Len(number) :
                     number[j] \notin {"0", "1", "2", "3", "4", "5", "6", "7", "8", "9"}

\* C12: a Received whose text has no separator, or whose id part is not an
\* unsigned integer, makes the handler panic; the panic comes before any entry
\* is removed, any response stored or any waker invoked, and nothing is
\* handled after it.
FatalFramingFault ==
    /\ [][\A text \in Malformed :
             /\ FramingFault(text)
             /\ Garbage(text) =>
                   /\ panicked'
                   /\ requests' = requests
                   /\ future_states' = future_states
                   /\ next_free_id' = next_free_id
                   /\ woken' = <<>>]_vars
    /\ [][~panicked]_vars

FatalFramingFaultWitness ==
    /\ panicked
    /\ DOMAIN requests # {}
    /\ \E s \in DOMAIN future_states :
          /\ future_states[s].waker # None
          /\ future_states[s].response_message = None
          /\ issued[s] \in DOMAIN requests

\* C13: the response of a request's future state is set at most once: a step
\* stores a response in it, or invokes its waker, only if no reply carrying
\* its id was handled before, whatever replies (duplicate, stray) and
\* reconnections come; a response that was returned is not stored again.
AtMostOnceResolution ==
    [][\A s \in DOMAIN future_states :
          (\/ /\ IsSome(future_states'[s].response_message)
              /\ future_states'[s].response_message # future_states[s].response_message
           \/ \E i \in DOMAIN woken' : woken'[i].state = s)
          => first_reply[s] = None]_vars

AtMostOnceResolutionWitness ==
    /\ stray = "duplicate"
    /\ websocket.id >= 1
    /\ Len(issued) = 1
    /\ IsSome(delivered[1])
    /\ future_states[1].response_message = None
    /\ poll_result[1] = Some(<<"Pending">>)

\* C14: a well-formed reply whose id has no entry in the table changes
\* nothing: the table, next_free_id, the backoff, the websocket and every
\* future state stay as they were, nothing is sent, no waker is invoked and
\* the handler does not panic.
StrayReplyIgnored ==
    [][\A id \in 0..MaxRequests, content \in Contents :
          (id \notin DOMAIN requests /\ ReplyStep(id, content)) =>
              /\ requests' = requests
              /\ next_free_id' = next_free_id
              /\ reconnector' = reconnector
              /\ streams' = streams
              /\ scheduled' = scheduled
              /\ websocket' = websocket
              /\ future_states' = future_states
              /\ woken' = <<>>
              /\ sent' = EmptyBag
              /\ ~panicked']_vars

StrayReplyIgnoredWitness ==
    /\ stray = "unknown"
    /\ ~panicked
    /\ DOMAIN requests # {}
    /\ \E s \in DOMAIN future_states :
          /\ issued[s] \in DOMAIN requests
          /\ future_states[s] = [response_message |-> None, waker |-> Some("w1")]

\* a step that handles Closed, Failed, Reconnect or Opened: the only ones
\* in which the current websocket or its state changes
TransportStep == websocket' # websocket

\* C15: handling Closed, Failed, Reconnect or Opened leaves the table and
\* next_free_id as they were, stores no response and invokes no waker; no
\* step alters an entry, and an entry leaves the table only when a reply
\* carrying its id is handled.
TransportKeepsRequests ==
    /\ [][TransportStep =>
             /\ requests' = requests
             /\ next_free_id' = next_free_id
             /\ future_states' = future_states
             /\ poll_result' = poll_result
             /\ woken' = <<>>]_vars
    /\ [][\A id \in DOMAIN requests :
             /\ id \in DOMAIN requests' => requests'[id] = requests[id]
             /\ id \notin DOMAIN requests' =>
                   /\ \E content \in Contents : Reply(id, content)
                   /\ DOMAIN requests' = DOMAIN requests \ {id}]_vars

TransportKeepsRequestsWitness ==
    /\ websocket = [id |-> 1, state |-> "closed"]
    /\ faults = 1
    /\ IsSome(reconnector)
    /\ next_free_id = 2
    /\ DOMAIN requests = {0, 1}
    /\ \A id \in DOMAIN requests : id \in DOMAIN original /\ original[id].accepted
    /\ \A s \in DOMAIN future_states :
          future_states[s] = [response_message |-> None, waker |-> Some("w2")]

\* C17: a poll of a future that holds a response returns Ready with it and
\* takes it out; every poll after the future returned Ready returns Pending
\* and stores the waker of that poll in place of any other; that waker is
\* never invoked, since the entry of the request left the table with the
\* reply.
ConsumeOnce ==
    /\ [][\A s \in DOMAIN future_states, w \in Wakers :
             Poll(s, w) =>
                 /\ IsSome(future_states[s].response_message) =>
                       /\ poll_result'[s] = Ready(Unwrap(future_states[s].response_message))
                       /\ future_states'[s].response_message = None
                 /\ IsSome(delivered[s]) =>
                       /\ poll_result'[s] = Some(<<"Pending">>)
                       /\ future_states'[s] =
                             [response_message |-> None, waker |-> Some(w)]]_vars
    /\ [](\A s \in DOMAIN future_states :
             IsSome(delivered[s]) =>
                 /\ issued[s] \notin DOMAIN requests
                 /\ \A i \in DOMAIN woken : woken[i].state # s)

ConsumeOnceWitness ==
    /\ stray = "duplicate"
    /\ woken = <<>>
    /\ \E s \in DOMAIN future_states :
          /\ IsSome(delivered[s])
          /\ poll_result[s] = Some(<<"Pending">>)
          /\ future_states[s] = [response_message |-> None, waker |-> Some("w2")]
          /\ \A t \in DOMAIN future_states : t # s => first_reply[t] = None

\* the current websocket failed or closed
Down == websocket.state \in {"failed", "closed"}

\* C18: once the current websocket failed or closed, it does not stay the
\* current one for ever (as long as the number of websockets explored allows
\* one more), and what takes its place is a fresh websocket that is
\* connecting; handling Opened drops the backoff
\* handle and its stream; and the first Closed or Failed after that starts a
\* backoff stream again.
Reconnection ==
    /\ (Down /\ websocket.id < MaxSessions) ~> ~Down
    /\ [][(Down /\ ~Down') =>
             websocket' = [id |-> websocket.id + 1, state |-> "connecting"]]_vars
    /\ [][OpenedStep =>
             reconnector' = None /\ streams' = 0 /\ scheduled' = 0]_vars
    /\ [][(~Down /\ Down' /\ reconnector = None) =>
             IsSome(reconnector') /\ streams' = 1 /\ scheduled' = 1]_vars

ReconnectionWitness ==
    /\ websocket.id = 1
    /\ Down
    /\ faults = 1
    /\ scheduled = 1
    /\ streams = 1
    /\ IsSome(reconnector)

\* C16: after Measured is handled, futures holds the entries it held before
\* whose future state is alive and whose measurement has no element yet, in
\* the order they had; the handler asks for a render pass exactly if that
\* list is not empty, and a pass that was scheduled already stays scheduled.
SweepPartition ==
    [][Handled("Measured") =>
          /\ futures' = SelectSeq(futures,
                            LAMBDA k : stage[k] \in {"created", "awaiting"} /\ ~m_div[k])
          /\ ~should_render => (should_render' <=> futures' # <<>>)
          /\ should_render => should_render']_vars

SweepPartitionWitness ==
    /\ Len(stage) = 2
    /\ stage[1] = "awaiting" /\ m_div[1]
    /\ stage[2] = "awaiting" /\ ~m_div[2]
    /\ futures = <<2>>
    /\ should_render
    /\ \E i \in DOMAIN mq : mq[i].type = "Wake" /\ mq[i].wakers = <<1>>

\* C19: the measurement of every entry of futures whose future state is
\* alive (the future state owns it, which keeps it alive) is listed in
\* measurements, and every view pass returns it and keeps it listed.
LiveFutureListed ==
    /\ [](\A i \in DOMAIN futures :
             stage[futures[i]] \in {"created", "awaiting"} =>
                 futures[i] \in Range(measurements))
    /\ [][(should_render /\ ~should_render') =>
             \A i \in DOMAIN futures :
                 stage[futures[i]] \in {"created", "awaiting"} =>
                     /\ futures[i] \in Range(viewed')
                     /\ futures[i] \in Range(measurements')]_vars

LiveFutureListedWitness ==
    \E i, j \in DOMAIN futures :
        /\ stage[futures[i]] = "awaiting"
        /\ stage[futures[j]] = "dropped"
        /\ i < j
        /\ viewed = <<futures[i]>>
        /\ measurements = viewed
        /\ m_div[futures[i]]

\* the future of measurement k was polled, returned Pending and is kept
Awaiting(k) == k \in DOMAIN stage /\ stage[k] = "awaiting"

====
